---- MODULE Spec2Model ----
(***************************************************************************)
(* Model of scripts/deploy.py: the module-level start-up, deploy_contracts, *)
(* verify_contracts and check_verfication_status, with every external      *)
(* process (forge create, solc --version, cast abi-encode, forge           *)
(* verify-contract, forge verify-check) as a process whose output the       *)
(* program reads line by line.                                             *)
(*                                                                         *)
(* Text the program parses is a sequence of one-character strings, so that *)
(* split(), strip(), startswith(), find() and slicing are computed as      *)
(* Python computes them.  Text the program only passes along (flags,       *)
(* contract references, the hard-coded addresses) is an atom.              *)
(***************************************************************************)
EXTENDS Naturals, Integers, Sequences, FiniteSets, TLC

VARIABLES
    environ,            \* os.environ after load_dotenv: variable -> value
    argv,               \* sys.argv
    pc,                 \* the program's position
    error,              \* the uncaught exception that ended the run, if any
    idx,                \* which contract the current phase is at
    locals,             \* deploy_contracts' local variables: name -> address
    addresses,          \* module-level `addresses` (line 219)
    compiler_version,   \* verify_contracts' local
    encoded_constructor_args, \* verify_contracts' local
    guids,              \* verify_contracts' `guids`, then module-level `guids`
    acc,                \* the running call's `address` / `guid`
    cur,                \* the process whose stdout the program is reading
    alive,              \* pids of external processes not yet waited for
    drained,            \* pids whose stdout was read to end of file
    calls,              \* every external call made, in order
    faults              \* how many processes misbehaved so far

vars == <<environ, argv, pc, error, idx, locals, addresses, compiler_version,
          encoded_constructor_args, guids, acc, cur, alive, drained, calls,
          faults>>

(***************************************************************************)
(* Bounds of the model.                                                    *)
(***************************************************************************)
\* How many external processes of one run may misbehave.
MaxFaults == 1
\* How many chunks of output the process of a single call may emit.
MaxLines == 2

(***************************************************************************)
(* Python values.                                                          *)
(***************************************************************************)
None == [t |-> "None", s |-> <<>>, a |-> ""]
\* a str whose characters the program looks at
Str(chars) == [t |-> "str", s |-> chars, a |-> ""]
\* a str the program only passes along
Lit(atom) == [t |-> "str", s |-> <<>>, a |-> atom]
\* bytes, as subprocess.check_output returns them
Bytes(chars) == [t |-> "bytes", s |-> chars, a |-> ""]
\* a local variable read before it was assigned
Unbound == [t |-> "unbound", s |-> <<>>, a |-> ""]
\* the f-string of line 15
Url(network, key) == [t |-> "str", s |-> key, a |-> network]
\* Python's truth value of an object
Truthy(v) == v.t \notin {"None", "unbound"} /\ (v.s # <<>> \/ v.a # "")
\* how an f-string or str() renders a value
Format(v) == IF v.t = "None" THEN <<"N", "o", "n", "e">> (* "None" *) ELSE v.s

Whitespace == {" ", "\t", "\n", "\r"}

Min(a, b) == IF a < b THEN a ELSE b
Max(a, b) == IF a > b THEN a ELSE b

\* str.startswith
StartsWith(s, prefix) ==
    Len(s) >= Len(prefix) /\ SubSeq(s, 1, Len(prefix)) = prefix

\* The first position >= i of s holding a character of set, Len(s)+1 if none.
FirstIn(s, i, set) ==
    CHOOSE j \in i..(Len(s) + 1) :
        /\ j = Len(s) + 1 \/ s[j] \in set
        /\ \A k \in i..(j - 1) : s[k] \notin set

\* The first position >= i of s holding a character outside set.
FirstNotIn(s, i, set) ==
    CHOOSE j \in i..(Len(s) + 1) :
        /\ j = Len(s) + 1 \/ s[j] \notin set
        /\ \A k \in i..(j - 1) : s[k] \in set

\* str.lstrip(), str.rstrip(), str.strip()
LStrip(s) == SubSeq(s, FirstNotIn(s, 1, Whitespace), Len(s))
RStrip(s) ==
    LET keep == {j \in 1..Len(s) : s[j] \notin Whitespace}
    IN  IF keep = {} THEN <<>>
        ELSE SubSeq(s, 1, CHOOSE j \in keep : \A k \in keep : k <= j)
Strip(s) == RStrip(LStrip(s))

\* str.split() with no argument: the whitespace-separated tokens
RECURSIVE Split(_)
Split(s) ==
    LET t == LStrip(s)
    IN  IF t = <<>> THEN <<>>
        ELSE LET n == FirstIn(t, 1, Whitespace)
             IN  <<SubSeq(t, 1, n - 1)>> \o Split(SubSeq(t, n, Len(t)))

\* str.split("\n"): the pieces between line feeds, empty ones included
RECURSIVE SplitLines(_)
SplitLines(s) ==
    LET n == FirstIn(s, 1, {"\n"})
    IN  IF n = Len(s) + 1 THEN <<s>>
        ELSE <<SubSeq(s, 1, n - 1)>> \o SplitLines(SubSeq(s, n + 1, Len(s)))

\* One step of `for line in process.stdout`: the next line, its line feed
\* included, and the text left after it.
ReadLine(text) ==
    LET n == Min(FirstIn(text, 1, {"\n"}), Len(text))
    IN  [line |-> SubSeq(text, 1, n), rest |-> SubSeq(text, n + 1, Len(text))]

\* s[1:-1]
SliceInner(s) == IF Len(s) <= 2 THEN <<>> ELSE SubSeq(s, 2, Len(s) - 1)

\* s[:e], e as Python counts it (0-based, negative from the end)
SliceTo(s, e) ==
    SubSeq(s, 1, IF e < 0 THEN Max(Len(s) + e, 0) ELSE Min(e, Len(s)))

\* str.find(sub, start): the 0-based index of the first occurrence, -1 if none
Find(s, sub, start) ==
    LET at == {i \in (start + 1)..(Len(s) - Len(sub) + 1) :
                   SubSeq(s, i, i + Len(sub) - 1) = sub}
    IN  IF at = {} THEN -1
        ELSE (CHOOSE i \in at : \A k \in at : i <= k) - 1

Digits == <<"0", "1", "2", "3", "4", "5", "6", "7", "8", "9">>

\* str(n) of a natural number
RECURSIVE StrOfInt(_)
StrOfInt(n) ==
    IF n < 10 THEN <<Digits[n + 1]>>
    ELSE StrOfInt(n \div 10) \o <<Digits[(n % 10) + 1]>>

(***************************************************************************)
(* The output parsers.                                                     *)
(***************************************************************************)
HexPrefix == <<"0", "x">>
DeployedTo == <<"D", "e", "p", "l", "o", "y", "e", "d", " ", "t", "o", ":">> (* "Deployed to:" *)
VersionMarker == <<"V", "e", "r", "s", "i", "o", "n", ":">> (* "Version:" *)
GuidMarker == <<"G", "U", "I", "D", ":">> (* "GUID:" *)
Commit == <<"c", "o", "m", "m", "i", "t">> (* "commit" *)

\* parseAddress: the first token starting with 0x; falls off the end (None)
\* when there is none.
parseAddress(str) ==
    LET toks == Split(str)
        hits == {i \in 1..Len(toks) : StartsWith(toks[i], HexPrefix)}
    IN  IF hits = {} THEN None
        ELSE Str(toks[CHOOSE i \in hits : \A k \in hits : i <= k])

\* parseDeployedAddress: parseAddress of the first line starting with
\* "Deployed to:"; None when there is none.
parseDeployedAddress(output) ==
    LET lines == SplitLines(output)
        hits == {i \in 1..Len(lines) : StartsWith(lines[i], DeployedTo)}
    IN  IF hits = {} THEN None
        ELSE parseAddress(lines[CHOOSE i \in hits : \A k \in hits : i <= k])

\* parseCompilerVersion
parseCompilerVersion(output) ==
    LET toks == Split(output)
        last == toks[Len(toks)]
        beginningOfCommitSha == Find(last, Commit, 0) + Len(Commit) + 1
        endOfCommitSha == Find(last, <<".">>, beginningOfCommitSha)
    IN  Str(<<"v">> \o SliceTo(last, endOfCommitSha))

(***************************************************************************)
(* Module level, lines 10-33.                                              *)
(***************************************************************************)
EnvVars == {"ALCHEMY_KEY", "PK", "ETHERSCAN_API_KEY"}

\* os.getenv: the value, or None when the variable is not set
getenv(name) == environ[name]

ALCHEMY_KEY == getenv("ALCHEMY_KEY")
PK == getenv("PK")
ETHERSCAN_KEY == getenv("ETHERSCAN_API_KEY")
NETWORK == IF Len(argv) > 1 THEN argv[2] ELSE "mainnet"
network == IF Len(argv) > 1 THEN argv[2] ELSE "mainnet"
rpc_url == Url(NETWORK, Format(ALCHEMY_KEY))

\* toml.load("foundry.toml"): the project's settings, not part of scripts/
config == [default |-> [solc |-> "0.8.13", optimizer_runs |-> 200]]

CHAIN_IDS == [mainnet |-> 1, ropsten |-> 3, rinkeby |-> 4, goerli |-> 5]

PROXY_FACTORY_ADDR == Lit("0x18bef085f6dD4Bf6c23aF90465c91cF68D5B74Cb")
WETH == Lit("0x0Bb7509324cE409F7bbC4b701f932eAca9736AB7")
PROTOCOL_FEE_RECIPIENT == Lit("0x891e3465fCD6A67D13762487D2E326e0bF55De2F")
STRATEGY_EXCHANGE_FEE == Str(<<"4", "0", "0">> (* "400" *))

\* The lookup as CHAIN_IDS.get(network, 1) would do it: no KeyError.
LookupChainIdDefaulting(net) ==
    [raised |-> FALSE,
     value |-> IF net \in DOMAIN CHAIN_IDS THEN CHAIN_IDS[net] ELSE 1]

\* CHAIN_IDS[network], line 33: a subscript that finds no key raises KeyError.
LookupChainId(net) ==
    IF net \in DOMAIN CHAIN_IDS
    THEN [raised |-> FALSE, value |-> CHAIN_IDS[net]]
    ELSE [raised |-> TRUE, value |-> 0]

chain_id == LookupChainId(network).value

(***************************************************************************)
(* The contracts.                                                          *)
(***************************************************************************)
Names == {"fixedPriceStrategy", "currencyManager", "executionManager",
          "receiptToken", "exchange", "transferManagerERC721",
          "transferManagerERC1155", "transferSelector"}

\* The contract reference each call names.
Contract(name) ==
    CASE name = "fixedPriceStrategy" ->
           Lit("src/strategies/StrategyStandardSaleForFixedPrice.sol:StrategyStandardSaleForFixedPrice")
      [] name = "currencyManager" -> Lit("src/CurrencyManager.sol:CurrencyManager")
      [] name = "executionManager" -> Lit("src/ExecutionManager.sol:ExecutionManager")
      [] name = "receiptToken" -> Lit("src/ReceiptToken.sol:ReceiptToken")
      [] name = "exchange" -> Lit("src/RentalExchange.sol:RentalExchange")
      [] name = "transferManagerERC721" ->
           Lit("src/transferManagers/TransferManagerERC721.sol:TransferManagerERC721")
      [] name = "transferManagerERC1155" ->
           Lit("src/transferManagers/TransferManagerERC1155.sol:TransferManagerERC1155")
      [] name = "transferSelector" -> Lit("src/TransferSelectorNFT.sol:TransferSelectorNFT")

\* The characters of a key of the guids dict.
KeyChars(name) ==
    CASE name = "fixedPriceStrategy" -> <<"f", "i", "x", "e", "d", "P", "r", "i", "c", "e", "S", "t", "r", "a", "t", "e", "g", "y">> (* "fixedPriceStrategy" *)
      [] name = "currencyManager" -> <<"c", "u", "r", "r", "e", "n", "c", "y", "M", "a", "n", "a", "g", "e", "r">> (* "currencyManager" *)
      [] name = "executionManager" -> <<"e", "x", "e", "c", "u", "t", "i", "o", "n", "M", "a", "n", "a", "g", "e", "r">> (* "executionManager" *)
      [] name = "receiptToken" -> <<"r", "e", "c", "e", "i", "p", "t", "T", "o", "k", "e", "n">> (* "receiptToken" *)
      [] name = "exchange" -> <<"e", "x", "c", "h", "a", "n", "g", "e">> (* "exchange" *)
      [] name = "transferManagerERC721" -> <<"t", "r", "a", "n", "s", "f", "e", "r", "M", "a", "n", "a", "g", "e", "r", "E", "R", "C", "7", "2", "1">> (* "transferManagerERC721" *)
      [] name = "transferManagerERC1155" -> <<"t", "r", "a", "n", "s", "f", "e", "r", "M", "a", "n", "a", "g", "e", "r", "E", "R", "C", "1", "1", "5", "5">> (* "transferManagerERC1155" *)
      [] name = "transferSelector" -> <<"t", "r", "a", "n", "s", "f", "e", "r", "S", "e", "l", "e", "c", "t", "o", "r">> (* "transferSelector" *)

EmptyMap == [k \in {} |-> None]

\* Reading a local variable: UnboundLocalError when it was never assigned.
Lookup(map, key) == IF key \in DOMAIN map THEN map[key] ELSE Unbound

HasNone(args) == \E i \in 1..Len(args) : args[i].t = "None"
HasUnbound(args) == \E i \in 1..Len(args) : args[i].t = "unbound"

NoProc == [pid |-> 0, kind |-> "none", name |-> "", rest |-> <<>>, rc |-> 0]
NoError == [type |-> "", in |-> ""]
EmptyStr == Str(<<>>)

(***************************************************************************)
(* deploy_contract and deploy_contracts, lines 57-111.                     *)
(***************************************************************************)
\* The calls with the ERC-721 transfer manager moved before the exchange.
DeployOrderManagersFirst ==
    <<"fixedPriceStrategy", "currencyManager", "executionManager",
      "receiptToken", "transferManagerERC721", "exchange",
      "transferManagerERC1155", "transferSelector">>

\* The order of the eight deploy_contract calls.
DeployOrder ==
    <<"fixedPriceStrategy", "currencyManager", "executionManager",
      "receiptToken", "exchange", "transferManagerERC721",
      "transferManagerERC1155", "transferSelector">>

\* The constructor arguments of each call, read from the locals assigned so far.
DeployArgs(name, vals) ==
    CASE name = "fixedPriceStrategy" -> <<STRATEGY_EXCHANGE_FEE>>
      [] name = "exchange" ->
           <<Lookup(vals, "currencyManager"), Lookup(vals, "executionManager"),
             PROXY_FACTORY_ADDR, Lookup(vals, "receiptToken"), WETH,
             PROTOCOL_FEE_RECIPIENT>>
      [] name = "transferManagerERC721" -> <<Lookup(vals, "exchange")>>
      [] name = "transferManagerERC1155" -> <<Lookup(vals, "exchange")>>
      [] name = "transferSelector" ->
           <<Lookup(vals, "transferManagerERC721"),
             Lookup(vals, "transferManagerERC1155")>>
      [] OTHER -> <<>>

\* deploy_contract's argument vector, lines 59-63
DeployArgv(name, constructor_args) ==
    <<Lit("forge"), Lit("create"), Lit("--rpc-url"), rpc_url,
      Lit("--private-key"), PK, Contract(name)>>
    \o (IF Len(constructor_args) > 0
        THEN <<Lit("--constructor-args")>> \o constructor_args
        ELSE <<>>)

\* The local starting as None instead.
InitialAddressNone == None

\* `address = ""`, line 58
InitialAddress == EmptyStr

\* The loop body keeping the first match instead of the last.
DeployLineFirstWins(address, line) ==
    IF StartsWith(line, DeployedTo) /\ address = EmptyStr
    THEN parseAddress(line) ELSE address

\* The body of deploy_contract's loop, lines 71-72.
DeployLine(address, line) ==
    IF StartsWith(line, DeployedTo) THEN parseAddress(line) ELSE address

\* The returned dict with two of its values exchanged.
ReturnVarSwapped(key) ==
    CASE key = "exchange" -> "receiptToken"
      [] key = "receiptToken" -> "exchange"
      [] OTHER -> key

\* The local variable each key of the returned dict is read from.
ReturnVar(key) == key

\* The dict deploy_contracts returns, lines 102-111.
ReturnMap(vals) == [k \in Names |-> Lookup(vals, ReturnVar(k))]

(***************************************************************************)
(* verify_contract and verify_contracts, lines 114-203.                    *)
(***************************************************************************)
VerifyOrder ==
    <<"fixedPriceStrategy", "currencyManager", "executionManager",
      "receiptToken", "exchange", "transferManagerERC721",
      "transferManagerERC1155", "transferSelector">>

\* The type signature handed to cast abi-encode; "" for a contract the
\* code encodes nothing for.
Signature(name) ==
    CASE name = "fixedPriceStrategy" -> "constructor(uint256)"
      [] name = "exchange" ->
           "constructor(address,address,address,address,address,address)"
      [] name = "transferManagerERC721" -> "constructor(address)"
      [] name = "transferManagerERC1155" -> "constructor(address)"
      [] name = "transferSelector" -> "constructor(address,address)"
      [] OTHER -> ""

\* The values handed to cast abi-encode, with the exchange's in another order.
EncodeArgsReordered(name, map) ==
    CASE name = "fixedPriceStrategy" -> <<STRATEGY_EXCHANGE_FEE>>
      [] name = "exchange" ->
           <<Lookup(map, "currencyManager"), Lookup(map, "executionManager"),
             PROXY_FACTORY_ADDR, WETH, Lookup(map, "receiptToken"),
             PROTOCOL_FEE_RECIPIENT>>
      [] name = "transferManagerERC721" -> <<Lookup(map, "exchange")>>
      [] name = "transferManagerERC1155" -> <<Lookup(map, "exchange")>>
      [] name = "transferSelector" ->
           <<Lookup(map, "transferManagerERC721"),
             Lookup(map, "transferManagerERC1155")>>
      [] OTHER -> <<>>

\* The values handed to cast abi-encode, read from the addresses dict.
EncodeArgs(name, map) ==
    CASE name = "fixedPriceStrategy" -> <<STRATEGY_EXCHANGE_FEE>>
      [] name = "exchange" ->
           <<Lookup(map, "currencyManager"), Lookup(map, "executionManager"),
             PROXY_FACTORY_ADDR, Lookup(map, "receiptToken"), WETH,
             PROTOCOL_FEE_RECIPIENT>>
      [] name = "transferManagerERC721" -> <<Lookup(map, "exchange")>>
      [] name = "transferManagerERC1155" -> <<Lookup(map, "exchange")>>
      [] name = "transferSelector" ->
           <<Lookup(map, "transferManagerERC721"),
             Lookup(map, "transferManagerERC1155")>>
      [] OTHER -> <<>>

\* The key of addresses each verify_contract call reads its address from.
VerifyAddressKey(name) == name

CastArgv(name, map) ==
    <<Lit("cast"), Lit("abi-encode"), Lit(Signature(name))>>
    \o EncodeArgs(name, map)

\* verify_contract's argument vector, lines 117-124
VerifyArgv(optimizer_runs, version, address, contract, encoded) ==
    <<Lit("forge"), Lit("verify-contract"), Lit("--chain-id"),
      Str(StrOfInt(chain_id)), Lit("--num-of-optimizations"),
      Str(StrOfInt(optimizer_runs)), Lit("--compiler-version"), version,
      address, contract>>
    \o (IF Truthy(encoded) THEN <<Lit("--constructor-args"), encoded>>
        ELSE <<>>)

\* The loop body taking the token after GUID: instead of the line's last.
VerifyLineSecondToken(guid, line) ==
    IF StartsWith(Strip(line), GuidMarker)
    THEN Str(SliceInner(Split(line)[Min(2, Len(Split(line)))]))
    ELSE guid

\* The body of verify_contract's loop, lines 130-131.
VerifyLine(guid, line) ==
    IF StartsWith(Strip(line), GuidMarker)
    THEN Str(SliceInner(Split(line)[Len(Split(line))]))
    ELSE guid

\* The body of the version probe's loop, lines 143-144.
VersionLine(version, line) ==
    IF StartsWith(line, VersionMarker) THEN parseCompilerVersion(line)
    ELSE version

\* The version probe's argument vector, line 139
\* The version probe's argument vector, line 139; the atom stands for the
\* path f"./.svm/{solc}/solc-{solc}".
SolcArgv == <<Lit(config.default.solc), Lit("--version")>>

(***************************************************************************)
(* check_verfication_status, lines 206-216.                                *)
(***************************************************************************)
\* `for k, v in guids` iterates the dict's keys, in insertion order, and
\* unpacks each key, a str, into two targets.
GuidKeys == [i \in 1..Len(VerifyOrder) |-> KeyChars(VerifyOrder[i])]

Unpack2(item) ==
    IF Len(item) = 2
    THEN [raised |-> FALSE, k |-> Str(<<item[1]>>), v |-> Str(<<item[2]>>)]
    ELSE [raised |-> TRUE, k |-> None, v |-> None]

CheckArgv(k, v) ==
    <<Lit("forge"), Lit("verify-check"), Lit("--chain-id"),
      Str(StrOfInt(chain_id)), k, ETHERSCAN_KEY>>

(***************************************************************************)
(* The external processes: what each may print.                            *)
(***************************************************************************)
\* The address forge create deploys each contract to.
DeployedAddress(name) ==
    CASE name = "fixedPriceStrategy" -> <<"0", "x", "A", "1">> (* "0xA1" *)
      [] name = "currencyManager" -> <<"0", "x", "A", "2">> (* "0xA2" *)
      [] name = "executionManager" -> <<"0", "x", "A", "3">> (* "0xA3" *)
      [] name = "receiptToken" -> <<"0", "x", "A", "4">> (* "0xA4" *)
      [] name = "exchange" -> <<"0", "x", "A", "5">> (* "0xA5" *)
      [] name = "transferManagerERC721" -> <<"0", "x", "A", "6">> (* "0xA6" *)
      [] name = "transferManagerERC1155" -> <<"0", "x", "A", "7">> (* "0xA7" *)
      [] name = "transferSelector" -> <<"0", "x", "A", "8">> (* "0xA8" *)

\* The identifier the explorer hands out for each contract.
TrackingId(name) ==
    CASE name = "fixedPriceStrategy" -> <<"g", "1">>
      [] name = "currencyManager" -> <<"g", "2">>
      [] name = "executionManager" -> <<"g", "3">>
      [] name = "receiptToken" -> <<"g", "4">>
      [] name = "exchange" -> <<"g", "5">>
      [] name = "transferManagerERC721" -> <<"g", "6">>
      [] name = "transferManagerERC1155" -> <<"g", "7">>
      [] name = "transferSelector" -> <<"g", "8">>

DeployOk(name) ==
    <<"D", "e", "p", "l", "o", "y", "e", "r", ":", " ", "0", "x", "D", "0", "\n", "D", "e", "p", "l", "o", "y", "e", "d", " ", "t", "o", ":", " ">> (* "Deployer: 0xD0\nDeployed to: " *) \o DeployedAddress(name)
    \o <<"\n", "T", "r", "a", "n", "s", "a", "c", "t", "i", "o", "n", " ", "h", "a", "s", "h", ":", " ", "0", "x", "F", "0", "\n">> (* "\nTransaction hash: 0xF0\n" *)
DeployNoMarker == <<"E", "r", "r", "o", "r", ":", " ", "r", "e", "v", "e", "r", "t", "e", "d", "\n">> (* "Error: reverted\n" *)
DeployNoAddress == <<"D", "e", "p", "l", "o", "y", "e", "d", " ", "t", "o", ":", "\n">> (* "Deployed to:\n" *)

\* forge create: a deployment, a run that never prints the marker, or a
\* marker line that carries no address.
DeployOutcomes(name) ==
    {[text |-> DeployOk(name), rc |-> 0, fault |-> FALSE],
     [text |-> DeployNoMarker, rc |-> 1, fault |-> TRUE],
     [text |-> DeployNoAddress, rc |-> 1, fault |-> TRUE]}

\* solc --version
SolcOutcomes ==
    {[text |-> <<"s", "o", "l", "c", ",", " ", "t", "h", "e", " ", "s", "o", "l", "i", "d", "i", "t", "y", " ", "c", "o", "m", "p", "i", "l", "e", "r", "\n", "V", "e", "r", "s", "i", "o", "n", ":", " ", "0", ".", "8", ".", "1", "3", "+", "c", "o", "m", "m", "i", "t", ".", "a", "b", "a", "a", "5", "c", "0", "e", ".", "D", "a", "r", "w", "i", "n", ".", "a", "p", "p", "l", "e", "c", "l", "a", "n", "g", "\n">> (* "solc, the solidity compiler\nVersion: 0.8.13+commit.abaa5c0e.Darwin.appleclang\n" *),
      rc |-> 0, fault |-> FALSE],
     [text |-> <<"s", "o", "l", "c", ":", " ", "n", "o", "t", " ", "f", "o", "u", "n", "d", "\n">> (* "solc: not found\n" *), rc |-> 1, fault |-> TRUE]}

\* cast abi-encode: the encoding, a failure, or nothing at all.
CastOutcomes(name) ==
    {[text |-> <<"0", "x", "E">> (* "0xE" *) \o TrackingId(name) \o <<"\n">>, rc |-> 0, fault |-> FALSE],
     [text |-> <<>>, rc |-> 1, fault |-> TRUE],
     [text |-> <<>>, rc |-> 0, fault |-> TRUE]}

\* forge verify-contract
VerifyOutcomes(name) ==
    {[text |-> <<"S", "u", "b", "m", "i", "t", "t", "e", "d", " ", "c", "o", "n", "t", "r", "a", "c", "t", " ", "f", "o", "r", " ", "v", "e", "r", "i", "f", "i", "c", "a", "t", "i", "o", "n", ":", "\n", "\t", "R", "e", "s", "p", "o", "n", "s", "e", ":", " ", "O", "K", "\n", "\t", "G", "U", "I", "D", ":", " ", "\"">> (* "Submitted contract for verification:\n\tResponse: OK\n\tGUID: \"" *)
               \o TrackingId(name) \o <<"\"", "\n">>,
      rc |-> 0, fault |-> FALSE],
     [text |-> <<"E", "r", "r", "o", "r", ":", " ", "r", "a", "t", "e", " ", "l", "i", "m", "i", "t", "\n">> (* "Error: rate limit\n" *), rc |-> 1, fault |-> TRUE]}

\* forge verify-check
CheckOutcomes == {[text |-> <<"P", "a", "s", "s", " ", "-", " ", "V", "e", "r", "i", "f", "i", "e", "d", "\n">> (* "Pass - Verified\n" *), rc |-> 0, fault |-> FALSE]}

\* Pieces of output for deploy_contract and verify_contract called alone.
Chunks ==
    {<<"D", "e", "p", "l", "o", "y", "e", "d", " ", "t", "o", ":", " ", "0", "x", "A", "1", "\n">> (* "Deployed to: 0xA1\n" *), <<"D", "e", "p", "l", "o", "y", "e", "d", " ", "t", "o", ":", " ", "0", "x", "B", "2", "\n">> (* "Deployed to: 0xB2\n" *), <<"D", "e", "p", "l", "o", "y", "e", "d", " ", "t", "o", ":", "\n">> (* "Deployed to:\n" *),
     <<" ", "D", "e", "p", "l", "o", "y", "e", "d", " ", "t", "o", ":", " ", "0", "x", "C", "3", "\n">> (* " Deployed to: 0xC3\n" *), <<"D", "e", "p", "l", "o", "y", "e", "r", ":", " ", "0", "x", "D", "4", "\n">> (* "Deployer: 0xD4\n" *), <<"D", "e", "p", "l", "o", "y", "e", "d", " ", "t", "o", ":", " ", "0", "x", "E", "5">> (* "Deployed to: 0xE5" *),
     <<" ", " ", "G", "U", "I", "D", ":", " ", "\"", "a", "b", "c", "1", "2", "3", "\"", "\n">> (* "  GUID: \"abc123\"\n" *), <<"G", "U", "I", "D", ":", " ", "\"", "z", "z", "\"", " ", "o", "k", "\n">> (* "GUID: \"zz\" ok\n" *), <<"G", "U", "I", "D", ":", " ", "\"", "q", "9", "\"", "\n">> (* "GUID: \"q9\"\n" *)}

RECURSIVE Texts(_)
Texts(n) ==
    IF n = 0 THEN {<<>>}
    ELSE LET shorter == Texts(n - 1)
         IN  shorter \cup {t \o c : t \in shorter, c \in Chunks}

(***************************************************************************)
(* The program.                                                            *)
(***************************************************************************)
\* Leaving the process behind without waiting for it.
PopenExitNoWait(running, pid) == running

\* Popen.__exit__ (the end of a `with` block) and check_output: stdout is
\* closed and the process waited for.
PopenExit(running, pid) == running \ {pid}

\* The loop body of the call that is reading.
LineHandler(kind, value, line) ==
    CASE kind = "deploy" -> DeployLine(value, line)
      [] kind = "solc" -> VersionLine(value, line)
      [] kind = "verify" -> VerifyLine(value, line)
      [] OTHER -> value

Raise(type, where) ==
    /\ pc' = "raised"
    /\ error' = [type |-> type, in |-> where]

\* subprocess.Popen: the process starts and the environment settles what it
\* is going to print.
Spawn(kind, name, args, o) ==
    LET pid == Len(calls) + 1
    IN  /\ o.fault => faults < MaxFaults
        /\ faults' = faults + (IF o.fault THEN 1 ELSE 0)
        /\ calls' = Append(calls, [kind |-> kind, name |-> name, argv |-> args,
                                   pid |-> pid, out |-> o.text, rc |-> o.rc])
        /\ alive' = alive \cup {pid}
        /\ cur' = [pid |-> pid, kind |-> kind, name |-> name,
                   rest |-> o.text, rc |-> o.rc]

NoSpawn == UNCHANGED <<faults, calls, alive, cur>>

NextVerifyPc(i) == IF Signature(VerifyOrder[i]) # "" THEN "encode" ELSE "verify"

Init ==
    /\ environ \in [EnvVars -> {Str(<<"k", "e", "y">> (* "key" *)), None}]
    /\ argv \in {<<"deploy.py">>, <<"deploy.py", "goerli">>, <<"deploy.py", "kovan">>}
    /\ pc = "start"
    /\ error = NoError
    /\ idx = 0
    /\ locals = EmptyMap
    /\ addresses = EmptyMap
    /\ compiler_version = None
    /\ encoded_constructor_args = None
    /\ guids = EmptyMap
    /\ acc = None
    /\ cur = NoProc
    /\ alive = {}
    /\ drained = {}
    /\ calls = <<>>
    /\ faults = 0

\* Lines 10-33: the globals, and the chain id looked up.  The .env file and
\* foundry.toml are taken to load.
Startup ==
    /\ pc = "start"
    /\ IF LookupChainId(network).raised
       THEN Raise("KeyError", "module") /\ idx' = idx
       ELSE pc' = "deploy" /\ idx' = 1 /\ error' = error
    /\ NoSpawn
    /\ UNCHANGED <<environ, argv, locals, addresses, compiler_version,
                   encoded_constructor_args, guids, acc, drained>>

\* deploy_contract up to its Popen, for the next contract of deploy_contracts.
DeployPopen ==
    /\ pc = "deploy"
    /\ LET name == DeployOrder[idx]
           args == DeployArgv(name, DeployArgs(name, locals))
       IN  IF HasUnbound(args)
           THEN Raise("UnboundLocalError", "deploy_contracts") /\ NoSpawn /\ acc' = acc
           ELSE IF HasNone(args)
           THEN Raise("TypeError", "deploy_contract") /\ NoSpawn /\ acc' = InitialAddress
           ELSE /\ \E o \in DeployOutcomes(name) : Spawn("deploy", name, args, o)
                /\ acc' = InitialAddress
                /\ pc' = "reading"
                /\ error' = error
    /\ UNCHANGED <<environ, argv, idx, locals, addresses, compiler_version,
                   encoded_constructor_args, guids, drained>>

\* One turn of `for line in process.stdout`.
StdoutLine ==
    /\ pc = "reading"
    /\ cur.rest # <<>>
    /\ LET r == ReadLine(cur.rest)
       IN  /\ acc' = LineHandler(cur.kind, acc, r.line)
           /\ cur' = [cur EXCEPT !.rest = r.rest]
    /\ UNCHANGED <<environ, argv, pc, error, idx, locals, addresses,
                   compiler_version, encoded_constructor_args, guids, alive,
                   drained, calls, faults>>

\* End of file: the `with` block ends, the call returns, and its caller
\* stores the result and moves on.
WithExit ==
    /\ pc = "reading"
    /\ cur.rest = <<>>
    /\ alive' = PopenExit(alive, cur.pid)
    /\ drained' = drained \cup {cur.pid}
    /\ cur' = NoProc
    /\ locals' = IF cur.kind = "deploy" THEN (cur.name :> acc) @@ locals ELSE locals
    /\ addresses' = IF cur.kind = "deploy" /\ idx = Len(DeployOrder)
                    THEN ReturnMap(locals') ELSE addresses
    /\ compiler_version' = IF cur.kind = "solc" THEN acc ELSE compiler_version
    /\ guids' = IF cur.kind = "verify" THEN (cur.name :> acc) @@ guids ELSE guids
    /\ pc' = CASE cur.kind = "deploy" ->
                    IF idx = Len(DeployOrder) THEN "probe" ELSE "deploy"
               [] cur.kind = "solc" -> NextVerifyPc(1)
               [] cur.kind = "verify" ->
                    IF idx = Len(VerifyOrder) THEN "check" ELSE NextVerifyPc(idx + 1)
               [] OTHER -> "check"
    /\ idx' = CASE cur.kind = "deploy" ->
                    IF idx = Len(DeployOrder) THEN idx ELSE idx + 1
               [] cur.kind = "solc" -> 1
               [] cur.kind = "verify" ->
                    IF idx = Len(VerifyOrder) THEN 1 ELSE idx + 1
               [] OTHER -> idx + 1
    /\ UNCHANGED <<environ, argv, error, encoded_constructor_args, acc, calls,
                   faults>>

\* verify_contracts up to the Popen of the version probe, lines 137-140.
VersionPopen ==
    /\ pc = "probe"
    /\ \E o \in SolcOutcomes : Spawn("solc", "", SolcArgv, o)
    /\ acc' = EmptyStr
    /\ pc' = "reading"
    /\ UNCHANGED <<environ, argv, error, idx, locals, addresses,
                   compiler_version, encoded_constructor_args, guids, drained>>

\* subprocess.check_output(["cast", "abi-encode", ...]): the process starts.
CastCall ==
    /\ pc = "encode"
    /\ LET name == VerifyOrder[idx]
           args == CastArgv(name, addresses)
       IN  IF HasNone(args) \/ HasUnbound(args)
           THEN /\ Raise(IF HasNone(args) THEN "TypeError" ELSE "KeyError",
                         "verify_contracts")
                /\ NoSpawn
           ELSE /\ \E o \in CastOutcomes(name) : Spawn("cast", name, args, o)
                /\ pc' = "cast"
                /\ error' = error
    /\ UNCHANGED <<environ, argv, idx, locals, addresses, compiler_version,
                   encoded_constructor_args, guids, acc, drained>>

\* check_output returns what the process printed, or raises on a non-zero
\* exit status.
CastDone ==
    /\ pc = "cast"
    /\ alive' = PopenExit(alive, cur.pid)
    /\ drained' = drained \cup {cur.pid}
    /\ cur' = NoProc
    /\ IF cur.rc # 0
       THEN /\ Raise("CalledProcessError", "verify_contracts")
            /\ encoded_constructor_args' = encoded_constructor_args
       ELSE /\ encoded_constructor_args' = Bytes(cur.rest)
            /\ pc' = "verify"
            /\ error' = error
    /\ UNCHANGED <<environ, argv, idx, locals, addresses, compiler_version,
                   guids, acc, calls, faults>>

\* verify_contract up to its Popen, for the next contract of verify_contracts.
VerifyPopen ==
    /\ pc = "verify"
    /\ LET name == VerifyOrder[idx]
           encoded == IF Signature(name) # "" THEN encoded_constructor_args
                      ELSE None
           args == VerifyArgv(config.default.optimizer_runs, compiler_version,
                              Lookup(addresses, VerifyAddressKey(name)),
                              Contract(name), encoded)
       IN  IF HasNone(args) \/ HasUnbound(args)
           THEN /\ Raise(IF HasNone(args) THEN "TypeError" ELSE "KeyError",
                         "verify_contract")
                /\ NoSpawn
                /\ acc' = acc
           ELSE /\ \E o \in VerifyOutcomes(name) : Spawn("verify", name, args, o)
                /\ acc' = EmptyStr
                /\ pc' = "reading"
                /\ error' = error
    /\ UNCHANGED <<environ, argv, idx, locals, addresses, compiler_version,
                   encoded_constructor_args, guids, drained>>

\* One turn of check_verfication_status's loop: the next item is unpacked
\* and, if that works, the status command is started.
CheckIter ==
    /\ pc = "check"
    /\ IF idx > Len(GuidKeys)
       THEN pc' = "done" /\ error' = error /\ NoSpawn
       ELSE LET item == Unpack2(GuidKeys[idx])
                args == CheckArgv(item.k, item.v)
            IN  IF item.raised
                THEN Raise("ValueError", "check_verfication_status") /\ NoSpawn
                ELSE IF HasNone(args)
                THEN Raise("TypeError", "check_verfication_status") /\ NoSpawn
                ELSE /\ \E o \in CheckOutcomes : Spawn("check", VerifyOrder[idx], args, o)
                     /\ pc' = "reading"
                     /\ error' = error
    /\ UNCHANGED <<environ, argv, idx, locals, addresses, compiler_version,
                   encoded_constructor_args, guids, acc, drained>>

Next ==
    \/ Startup
    \/ DeployPopen
    \/ StdoutLine
    \/ WithExit
    \/ VersionPopen
    \/ CastCall
    \/ CastDone
    \/ VerifyPopen
    \/ CheckIter

Spec == Init /\ [][Next]_vars

(***************************************************************************)
(* deploy_contract and verify_contract called on their own, on any output. *)
(***************************************************************************)
InitUnit ==
    /\ environ = [v \in EnvVars |-> Str(<<"k", "e", "y">> (* "key" *))]
    /\ argv = <<"deploy.py", "goerli">>
    /\ pc = "unit"
    /\ error = NoError
    /\ idx = 1
    /\ locals = EmptyMap
    /\ addresses = EmptyMap
    /\ compiler_version = Str(<<"v", "0", ".", "8", ".", "1", "3", "+", "c", "o", "m", "m", "i", "t", ".", "a", "b", "a", "a", "5", "c", "0", "e">> (* "v0.8.13+commit.abaa5c0e" *))
    /\ encoded_constructor_args = None
    /\ guids = EmptyMap
    /\ acc = None
    /\ cur = NoProc
    /\ alive = {}
    /\ drained = {}
    /\ calls = <<>>
    /\ faults = 0

UnitDeploy ==
    /\ pc = "unit"
    /\ LET name == DeployOrder[idx]
       IN  \E text \in Texts(MaxLines) :
               Spawn("deploy", name, DeployArgv(name, DeployArgs(name, locals)),
                     [text |-> text, rc |-> 0, fault |-> FALSE])
    /\ acc' = InitialAddress
    /\ pc' = "reading"
    /\ UNCHANGED <<environ, argv, error, idx, locals, addresses,
                   compiler_version, encoded_constructor_args, guids, drained>>

UnitVerify ==
    /\ pc = "unit"
    /\ LET name == VerifyOrder[idx]
       IN  \E text \in Texts(MaxLines) :
               Spawn("verify", name,
                     VerifyArgv(config.default.optimizer_runs, compiler_version,
                                Str(DeployedAddress(name)), Contract(name), None),
                     [text |-> text, rc |-> 0, fault |-> FALSE])
    /\ acc' = EmptyStr
    /\ pc' = "reading"
    /\ UNCHANGED <<environ, argv, error, idx, locals, addresses,
                   compiler_version, encoded_constructor_args, guids, drained>>

NextUnit ==
    \/ UnitDeploy
    \/ UnitVerify
    \/ StdoutLine
    \/ WithExit

SpecUnit == InitUnit /\ [][NextUnit]_vars

(***************************************************************************)
(* Reading the record of calls.                                            *)
(***************************************************************************)
CallsOf(kind, name) ==
    {i \in 1..Len(calls) : calls[i].kind = kind /\ calls[i].name = name}

\* The call has returned: its output was read to the end and it was waited for.
Returned(i) == calls[i].pid \in drained /\ calls[i].pid \notin alive

\* What follows --constructor-args in a deploy call's argument vector.
ConstructorArgsOf(call) ==
    IF Len(call.argv) > 8 THEN SubSeq(call.argv, 9, Len(call.argv)) ELSE <<>>

\* The lines of an output that start with the deploy marker.
MarkerLines(out) ==
    LET lines == SplitLines(out)
    IN  {i \in 1..Len(lines) : StartsWith(lines[i], DeployedTo)}

\* The lines of an output whose trimmed form starts with GUID:
GuidLines(out) ==
    LET lines == SplitLines(out)
    IN  {i \in 1..Len(lines) : StartsWith(Strip(lines[i]), GuidMarker)}

Greatest(set) == CHOOSE i \in set : \A k \in set : k <= i

\* The 0x tokens that follow "Deployed to:" on the lines of an output.
SuccessAddresses(out) ==
    LET lines == SplitLines(out)
        toks == [i \in 1..Len(lines) |-> Split(lines[i])]
    IN  {toks[i][3] : i \in
             {j \in MarkerLines(out) :
                  Len(toks[j]) >= 3 /\ StartsWith(toks[j][3], HexPrefix)}}

\* "" and None are both the absent value.
Absent(v) == v = None \/ v = EmptyStr
SameResult(v, w) == v = w \/ (Absent(v) /\ Absent(w))

\* Contracts whose deploy process ended without a "Deployed to:" line.
FailedDeploys ==
    {n \in Names : \E i \in CallsOf("deploy", n) :
         Returned(i) /\ MarkerLines(calls[i].out) = {}}

\* B's constructor arguments that are A's address, and where they stand.
References(B) ==
    CASE B = "exchange" ->
           {<<1, "currencyManager">>, <<2, "executionManager">>,
            <<4, "receiptToken">>}
      [] B = "transferManagerERC721" -> {<<1, "exchange">>}
      [] B = "transferManagerERC1155" -> {<<1, "exchange">>}
      [] B = "transferSelector" ->
           {<<1, "transferManagerERC721">>, <<2, "transferManagerERC1155">>}
      [] OTHER -> {}

\* Control stands at, or is past, the start of B's deploy call.
DeployBegins(B) ==
    \/ pc = "deploy" /\ idx \in 1..Len(DeployOrder) /\ DeployOrder[idx] = B
    \/ CallsOf("deploy", B) # {}

(***************************************************************************)
(* The claims.                                                             *)
(***************************************************************************)

\* C1: whenever the deploy call of a contract B begins, every contract A
\* whose address B's constructor takes has had its own deploy call return
\* and its result stored, and A's call comes before B's.
C1_DeploymentOrdering ==
    \A B \in Names : \A r \in References(B) :
        DeployBegins(B) =>
            /\ r[2] \in DOMAIN locals
            /\ \E i \in CallsOf("deploy", r[2]) :
                   /\ Returned(i)
                   /\ \A j \in CallsOf("deploy", B) : i < j

C1_Witness ==
    /\ CallsOf("deploy", "transferSelector") # {}
    /\ CallsOf("deploy", "exchange") # {}

\* C2: when all eight deploy processes printed a "Deployed to: 0x..." line,
\* the dict deploy_contracts returns has exactly the eight keys, and each key
\* holds the address printed by that contract's own process.
AllDeploysSucceeded ==
    \A n \in Names : \E i \in CallsOf("deploy", n) :
        Returned(i) /\ SuccessAddresses(calls[i].out) # {}

C2_AddressMapFromOwnOutput ==
    (addresses # EmptyMap /\ AllDeploysSucceeded) =>
        /\ DOMAIN addresses = Names
        /\ \A n \in Names : \A i \in CallsOf("deploy", n) :
               addresses[n] \in {Str(a) : a \in SuccessAddresses(calls[i].out)}

C2_Witness == addresses # EmptyMap /\ AllDeploysSucceeded

C4_MissingVariableIsFatal ==
    (\E v \in EnvVars : getenv(v) = None) => calls = <<>>

\* C5: check_verfication_status runs `verify-check --chain-id <chain id>
\* <identifier> <API key>` once for every entry of guids, with that entry's
\* identifier, and returns normally after eight such calls.
CheckCalls == SelectSeq(calls, LAMBDA c : c.kind = "check")

C5_CheckStatusCallsEach ==
    /\ error.in # "check_verfication_status"
    /\ \A i \in 1..Len(CheckCalls) :
           CheckCalls[i].argv =
               <<Lit("forge"), Lit("verify-check"), Lit("--chain-id"),
                 Str(StrOfInt(chain_id)), guids[VerifyOrder[i]], ETHERSCAN_KEY>>
    /\ pc = "done" => Len(CheckCalls) = Cardinality(DOMAIN guids)

\* C6 as claimed: deploy_contract returns what parseDeployedAddress returns
\* on the same output ("" and None both counted as the absent value).
C6_DeployEqualsParseDeployedAddress ==
    \A i \in 1..Len(calls) :
        (calls[i].kind = "deploy" /\ Returned(i)) =>
            SameResult(locals[calls[i].name], parseDeployedAddress(calls[i].out))

\* C6, amended: deploy_contract returns parseAddress of the LAST line that
\* starts with "Deployed to:", and "" when no line does (parseDeployedAddress
\* then returns None); on an output with exactly one such line it returns
\* exactly what parseDeployedAddress returns.
C6_DeployReturnsLastMarkerLine ==
    \A i \in 1..Len(calls) :
        (calls[i].kind = "deploy" /\ Returned(i)) =>
            LET out == calls[i].out
                result == locals[calls[i].name]
                hits == MarkerLines(out)
            IN  /\ hits = {} =>
                       result = EmptyStr /\ parseDeployedAddress(out) = None
                /\ hits # {} =>
                       result = parseAddress(SplitLines(out)[Greatest(hits)])
                /\ Cardinality(hits) = 1 => result = parseDeployedAddress(out)

C6_Witness ==
    \E i \in 1..Len(calls) :
        /\ calls[i].kind = "deploy" /\ Returned(i)
        /\ Cardinality(MarkerLines(calls[i].out)) >= 2
        /\ locals[calls[i].name] # parseDeployedAddress(calls[i].out)

\* The identifiers an output gives as `GUID: "<identifier>"`.
IsQuoted(tok) ==
    /\ Len(tok) >= 2
    /\ \A i \in 1..Len(tok) : (tok[i] = "\"") <=> (i \in {1, Len(tok)})
Unquoted(tok) == SelectSeq(tok, LAMBDA c : c # "\"")
QuotedIds(out) ==
    LET lines == SplitLines(out)
        toks == [i \in 1..Len(lines) |-> Split(lines[i])]
    IN  {Unquoted(toks[i][2]) : i \in
             {j \in GuidLines(out) :
                  /\ Len(toks[j]) >= 2
                  /\ toks[j][1] = GuidMarker
                  /\ IsQuoted(toks[j][2])}}

\* C7 as claimed: on an output with a line `GUID: "<identifier>"`,
\* verify_contract returns such an identifier, quotes stripped, whatever else
\* the line or the output holds.
C7_VerifyReturnsQuotedIdentifier ==
    \A i \in 1..Len(calls) :
        (calls[i].kind = "verify" /\ Returned(i)
            /\ QuotedIds(calls[i].out) # {}) =>
            guids[calls[i].name] \in {Str(x) : x \in QuotedIds(calls[i].out)}

\* C7, amended: verify_contract returns the LAST token of the LAST line whose
\* trimmed form starts with GUID:, less its first and last character, and ""
\* when there is no such line; when that line is `GUID: "<identifier>"` and
\* nothing more, this is the identifier with its quotes stripped.
C7_VerifyReturnsLastTokenOfLastGuidLine ==
    \A i \in 1..Len(calls) :
        (calls[i].kind = "verify" /\ Returned(i)) =>
            LET out == calls[i].out
                result == guids[calls[i].name]
                hits == GuidLines(out)
                toks == Split(SplitLines(out)[Greatest(hits)])
            IN  /\ hits = {} => result = EmptyStr
                /\ hits # {} => result = Str(SliceInner(toks[Len(toks)]))
                /\ (hits # {} /\ Len(toks) = 2 /\ toks[1] = GuidMarker
                        /\ IsQuoted(toks[2])) =>
                       result = Str(Unquoted(toks[2]))

C7_Witness ==
    \E i \in 1..Len(calls) :
        /\ calls[i].kind = "verify" /\ Returned(i)
        /\ Cardinality(GuidLines(calls[i].out)) >= 2
        /\ guids[calls[i].name] = Str(<<"a", "b", "c", "1", "2", "3">> (* "abc123" *))

\* C8: at most one external process is alive at any time, and every process
\* but the latest has had its output read to the end and has been waited for.
C8_OneProcessAtATime ==
    /\ Cardinality(alive) <= 1
    /\ alive \subseteq {cur.pid}
    /\ \A i \in 1..Len(calls) :
           i < Len(calls) => calls[i].pid \notin alive /\ calls[i].pid \in drained

C8_Witness ==
    /\ cur.kind = "verify"
    /\ alive = {cur.pid}
    /\ \E i \in 1..Len(calls) : calls[i].kind = "cast"

\* C9: every verify call names the contract its address belongs to; the
\* values cast abi-encode is given for a contract are, in order, the
\* constructor arguments of that contract's deploy call; the verify call
\* carries the output of that encoding; and a contract deployed without
\* constructor arguments is verified without --constructor-args.
C9_VerifyArgsMatchDeployArgs ==
    \A j \in 1..Len(calls) : \A d \in CallsOf("deploy", calls[j].name) :
        LET c == calls[j]
            deployed == ConstructorArgsOf(calls[d])
        IN  /\ c.kind = "cast" =>
                   SubSeq(c.argv, 4, Len(c.argv)) = deployed /\ deployed # <<>>
            /\ c.kind = "verify" =>
                   /\ c.argv[9] = addresses[c.name]
                   /\ c.argv[10] = calls[d].argv[7]
                   /\ deployed = <<>> =>
                          Len(c.argv) = 10 /\ calls[j - 1].kind # "cast"
                   /\ deployed # <<>> =>
                          /\ calls[j - 1].kind = "cast"
                          /\ calls[j - 1].name = c.name
                          /\ calls[j - 1].out # <<>> =>
                                 /\ Len(c.argv) = 12
                                 /\ c.argv[11] = Lit("--constructor-args")
                                 /\ c.argv[12] = Bytes(calls[j - 1].out)

C9_Witness ==
    \E j \in CallsOf("verify", "exchange") :
        /\ Len(calls[j].argv) = 12
        /\ CallsOf("verify", "receiptToken") # {}

\* C10: when a deploy process ends without a "Deployed to:" line (and no
\* other process printed that marker without an address), the contract's
\* address is "", deploy_contracts raises nothing, "" stands wherever a later
\* constructor takes that address, all eight deploy calls are made, and the
\* returned dict has all eight keys with "" for the failed contract.
C10_SilentDegradation ==
    \A k \in FailedDeploys :
        /\ locals[k] = EmptyStr
        /\ error.in \in {"deploy_contract", "deploy_contracts"} =>
               \E n \in DOMAIN locals : locals[n] = None
        /\ \A B \in Names : \A r \in References(B) : \A j \in CallsOf("deploy", B) :
               r[2] = k => ConstructorArgsOf(calls[j])[r[1]] = EmptyStr
        /\ addresses # EmptyMap =>
               /\ DOMAIN addresses = Names
               /\ addresses[k] = EmptyStr
               /\ \A n \in Names : CallsOf("deploy", n) # {}

C10_Witness ==
    /\ "currencyManager" \in FailedDeploys
    /\ addresses # EmptyMap
    /\ \E j \in CallsOf("deploy", "exchange") :
           ConstructorArgsOf(calls[j])[1] = EmptyStr

====
